---- MODULE Spec2Model ----
(***************************************************************************)
(* The Tic-Tac-Toe "solution" Board (src/client/solution/components/       *)
(* board.tsx), its Squares and its AdvancedBoard parent (both in           *)
(* src/client/solution/components/square.tsx), and the end-of-game         *)
(* analysis checkForEndConditions (src/unnamed/part_001).                  *)
(*                                                                         *)
(* One page life is one game: the page loads with a 3 by 3 board, the      *)
(* stored dimension arrives asynchronously, squares are activated, the     *)
(* terminal move schedules an alert, and the alert reloads the page.       *)
(*                                                                         *)
(* Spec is the page taken alone; SpecLate is the page when the response    *)
(* to GET /dimensions is slow; SpecBoard is a Board mounted on its own for *)
(* any dimension; SpecNotify calls Board.handleMove directly; SpecSession  *)
(* is the page together with the requests in flight and the server         *)
(* (src/server/index.ts); SpecEval applies the analysis to any grid.       *)
(* SpecTimed is Spec with timeouts that fire; SpecSelect is a loaded page  *)
(* with the server; SpecRange is AdvancedBoard with any props; SpecBasic   *)
(* is the basic Board of src/client/board.tsx; SpecStore and SpecStateful  *)
(* are the server alone, from its start.                                   *)
(*                                                                         *)
(* Board.handleMove calls checkForEndConditions(gameState) with the matrix *)
(* alone, while the analysis function under src/ takes (gameState, size).  *)
(* The model passes the side length of the matrix as size, which is what   *)
(* the two-argument caller in src/client/board.tsx passes.                 *)
(***************************************************************************)
EXTENDS Integers, Sequences, FiniteSets, Bags

\* ------------------------------------------------------------------------
\* Bounds of the model and constants of the program

\* the largest dimension the slider offers and the store holds (the entry
\* point passes maximumDimensions = 15)
MaxDim == 4

\* the GET /dimensions response arrives before more than this many moves
MaxMovesBeforeLoad == 1

\* the slow GET /dimensions response arrives before more than this many moves
MaxMovesBeforeLateLoad == 10

\* the slider is not moved while this many messages are in flight
MaxInFlight == 3

\* the page is not reloaded once this many games have been reported
MaxGames == 2

\* notifyBoard is called directly at most this many times
MaxNotifications == 2

\* the largest directly constructed grid handed to the analysis
MaxEvalDim == 3

\* minimumDimensions, as the entry point passes it to AdvancedBoard
minimumDimensions == 3

\* AdvancedBoard._dimensions when the page has just loaded
initialDimensions == 3

\* defaultDimensions of the server
defaultDimensions == 3

\* ------------------------------------------------------------------------
\* logic/utilities.ts

None == "none"
X == "x"
O == "o"

Identity == {None, X, O}

\* a variable declared and not yet assigned
Undefined == "undefined"

Location(n) == [row : 0..(n - 1), column : 0..(n - 1)]

Loc(r, c) == [row |-> r, column |-> c]

\* ------------------------------------------------------------------------
\* logic/analysis: checkForEndConditions, loop by loop

\* side length of a matrix (gameState.length)
Size(g) == Cardinality(DOMAIN g)

\* RowMatches with the loop bound one too small: the last column is not compared
RECURSIVE RowMatchesStopsShort(_, _, _, _, _)
RowMatchesStopsShort(g, size, row, column, winner) ==
    IF column >= size - 1 THEN winner
    ELSE IF g[row][column] # winner THEN None
    ELSE RowMatchesStopsShort(g, size, row, column + 1, winner)

\* inner loop of the row scan: columns column..size-1 of one row
RECURSIVE RowMatches(_, _, _, _, _)
RowMatches(g, size, row, column, winner) ==
    IF column >= size THEN winner
    ELSE IF g[row][column] # winner THEN None
    ELSE RowMatches(g, size, row, column + 1, winner)

\* CheckRows scanning from the bottom row upwards
RECURSIVE CheckRowsBottomUp(_, _, _)
CheckRowsBottomUp(g, size, row) ==
    IF row >= size THEN None
    ELSE LET first == g[(size - 1) - row][0]
             found == IF first # None
                      THEN RowMatches(g, size, (size - 1) - row, 1, first)
                      ELSE None
         IN  IF found # None THEN found ELSE CheckRowsBottomUp(g, size, row + 1)

\* outer loop of the row scan, from row on
RECURSIVE CheckRows(_, _, _)
CheckRows(g, size, row) ==
    IF row >= size THEN None
    ELSE LET first == g[row][0]
             found == IF first # None THEN RowMatches(g, size, row, 1, first) ELSE None
         IN  IF found # None THEN found ELSE CheckRows(g, size, row + 1)

\* inner loop of the column scan: rows row..size-1 of one column
RECURSIVE ColumnMatches(_, _, _, _, _)
ColumnMatches(g, size, row, column, winner) ==
    IF row >= size THEN winner
    ELSE IF g[row][column] # winner THEN None
    ELSE ColumnMatches(g, size, row + 1, column, winner)

\* outer loop of the column scan, from column on
RECURSIVE CheckColumns(_, _, _)
CheckColumns(g, size, column) ==
    IF column >= size THEN None
    ELSE LET first == g[0][column]
             found == IF first # None THEN ColumnMatches(g, size, 1, column, first) ELSE None
         IN  IF found # None THEN found ELSE CheckColumns(g, size, column + 1)

\* loop of the top left / bottom right diagonal, from index i on
RECURSIVE DiagonalMatches(_, _, _, _)
DiagonalMatches(g, size, i, winner) ==
    IF i >= size THEN winner
    ELSE IF g[i][i] # winner THEN None
    ELSE DiagonalMatches(g, size, i + 1, winner)

CheckDiagonal(g, size) ==
    LET first == g[0][0]
    IN  IF first # None THEN DiagonalMatches(g, size, 1, first) ELSE None

\* loop of the bottom left / top right diagonal, from index i on
RECURSIVE AntiDiagonalMatches(_, _, _, _)
AntiDiagonalMatches(g, size, i, winner) ==
    IF i >= size THEN winner
    ELSE IF g[i][(size - 1) - i] # winner THEN None
    ELSE AntiDiagonalMatches(g, size, i + 1, winner)

\* CheckAntiDiagonal reading the main diagonal once more
CheckAntiDiagonalReadsMain(g, size) ==
    LET first == g[0][0]
    IN  IF first # None THEN DiagonalMatches(g, size, 1, first) ELSE None

CheckAntiDiagonal(g, size) ==
    LET first == g[0][size - 1]
    IN  IF first # None THEN AntiDiagonalMatches(g, size, 1, first) ELSE None

checkForEndConditions(g, size) ==
    LET rows == CheckRows(g, size, 0)
        columns == CheckColumns(g, size, 0)
        diagonal == CheckDiagonal(g, size)
    IN  IF rows # None THEN rows
        ELSE IF columns # None THEN columns
        ELSE IF diagonal # None THEN diagonal
        ELSE CheckAntiDiagonal(g, size)

\* ------------------------------------------------------------------------
\* State of one page: AdvancedBoard, its Board and the Board's Squares

VARIABLES
    dimensions,     \* AdvancedBoard._dimensions, handed to the Board as props.dimensions
    loadPending,    \* the GET /dimensions of componentDidMount has not been answered yet
    gameState,      \* Board.gameState, row -> column -> Identity, indices from 0
    maxMoveCount,   \* Board.maxMoveCount
    elapsedMoves,   \* Board.elapsedMoves
    currentPlayer,  \* Board.currentPlayer
    isGameOver,     \* Board.isGameOver
    squares,        \* Square.identity of every mounted Square, by location
    squareProps,    \* currentPlayer and isGameOver as the last render handed them to the Squares
    gameEnded,      \* the winners handed to props.onGameEnd, in call order
    timers,         \* the messages of the pending end-of-game timeouts
    winner,         \* the last result of checkForEndConditions
    thrown,         \* a handler of this page has ended with an uncaught TypeError
    database,       \* the parsed content of the server's database.json
    network,        \* the requests and responses in flight, a bag
    listening,      \* the server process has run its start-up code and listens
    slider          \* the props of AdvancedBoard and, once computed, its sliderMin and sliderMax

\* the fields of the page
pageVars == <<dimensions, loadPending, gameState, maxMoveCount, elapsedMoves, currentPlayer,
              isGameOver, squares, squareProps, gameEnded, timers, winner, thrown>>

vars == <<pageVars, database, network, listening, slider>>

\* the page as one record, so that a handler is a function from page to page
Page ==
    [dimensions |-> dimensions, loadPending |-> loadPending, gameState |-> gameState,
     maxMoveCount |-> maxMoveCount, elapsedMoves |-> elapsedMoves,
     currentPlayer |-> currentPlayer, isGameOver |-> isGameOver, squares |-> squares,
     squareProps |-> squareProps, gameEnded |-> gameEnded, timers |-> timers,
     winner |-> winner, thrown |-> thrown]

Becomes(s) ==
    /\ dimensions' = s.dimensions
    /\ loadPending' = s.loadPending
    /\ gameState' = s.gameState
    /\ maxMoveCount' = s.maxMoveCount
    /\ elapsedMoves' = s.elapsedMoves
    /\ currentPlayer' = s.currentPlayer
    /\ isGameOver' = s.isGameOver
    /\ squares' = s.squares
    /\ squareProps' = s.squareProps
    /\ gameEnded' = s.gameEnded
    /\ timers' = s.timers
    /\ winner' = s.winner
    /\ thrown' = s.thrown

\* ------------------------------------------------------------------------
\* Board

\* the matrix constructBoardLogic returns for the given props.dimensions
constructBoardLogic(d) == [row \in 0..(d - 1) |-> [column \in 0..(d - 1) |-> None]]

hasGameStarted(s) == s.elapsedMoves > 0

\* the alert text notifyPlayerEndGame chooses
Message(w) ==
    IF w \in {X, O} THEN <<"Congratulations, Player", w, "You've won!">>
    ELSE <<"Well, it's a draw!">>

\* notifyPlayerEndGame without the assignment to isGameOver
notifyPlayerEndGameLeavesFlag(s, w) ==
    [s EXCEPT !.gameEnded = Append(@, w),
              !.timers = Append(@, Message(w))]

\* notifyPlayerEndGame without the call of setTimeout
notifyPlayerEndGameSetsNoTimeout(s, w) ==
    [s EXCEPT !.isGameOver = TRUE,
              !.gameEnded = Append(@, w)]

notifyPlayerEndGame(s, w) ==
    [s EXCEPT !.isGameOver = TRUE,
              !.gameEnded = Append(@, w),
              !.timers = Append(@, Message(w))]

\* Toggle with the branches of the ternary the same way round as its test
ToggleKeepsPlayer(p) == IF p = X THEN X ELSE O

Toggle(p) == IF p = X THEN O ELSE X

\* gameState[row][column] = identity on the row array r: an index the array
\* does not have yet is added to it
Store(r, column, p) == [c \in DOMAIN r \cup {column} |-> IF c = column THEN p ELSE r[c]]

\* gameState[row] is undefined: the assignment into it raises a TypeError
NoSuchRow(s, loc) == loc.row \notin DOMAIN s.gameState

\* the first statements of handleMove: the counter, then the assignment to
\* the matrix, which ends the handler if the row does not exist
\* the first statements of handleMove storing the player who moves next
writeMarkOfNextPlayer(s, loc) ==
    LET counted == [s EXCEPT !.elapsedMoves = @ + 1]
    IN  IF NoSuchRow(s, loc)
        THEN [counted EXCEPT !.thrown = TRUE]
        ELSE [counted EXCEPT !.gameState[loc.row] = Store(@, loc.column, Toggle(s.currentPlayer))]

writeMark(s, loc) ==
    LET counted == [s EXCEPT !.elapsedMoves = @ + 1]
    IN  IF NoSuchRow(s, loc)
        THEN [counted EXCEPT !.thrown = TRUE]
        ELSE [counted EXCEPT !.gameState[loc.row] = Store(@, loc.column, s.currentPlayer)]

\* handleMove handing the current player, after the toggle, to the end-of-game routine
handleMoveNamesCurrentPlayer(s, loc) ==
    LET moved == [writeMark(s, loc) EXCEPT !.currentPlayer = Toggle(s.currentPlayer)]
        w == checkForEndConditions(moved.gameState, Size(moved.gameState))
        checked == [moved EXCEPT !.winner = w]
    IN  IF NoSuchRow(s, loc) THEN writeMark(s, loc)
        ELSE IF w # None \/ checked.elapsedMoves = checked.maxMoveCount
        THEN notifyPlayerEndGame(checked, IF w # None THEN checked.currentPlayer ELSE w)
        ELSE checked

\* handleMove comparing the move counter with maxMoveCount before incrementing it
handleMoveCountsAfterCheck(s, loc) ==
    LET moved == [writeMark(s, loc) EXCEPT !.currentPlayer = Toggle(s.currentPlayer)]
        w == checkForEndConditions(moved.gameState, Size(moved.gameState))
        checked == [moved EXCEPT !.winner = w]
    IN  IF NoSuchRow(s, loc) THEN writeMark(s, loc)
        ELSE IF w # None \/ s.elapsedMoves = checked.maxMoveCount
        THEN notifyPlayerEndGame(checked, w)
        ELSE checked

\* handleMove toggling the player only when the game goes on
handleMoveTogglesIfGameGoesOn(s, loc) ==
    LET moved == writeMark(s, loc)
        w == checkForEndConditions(moved.gameState, Size(moved.gameState))
        checked == [moved EXCEPT !.winner = w]
    IN  IF NoSuchRow(s, loc) THEN writeMark(s, loc)
        ELSE IF w # None \/ checked.elapsedMoves = checked.maxMoveCount
        THEN notifyPlayerEndGame(checked, w)
        ELSE [checked EXCEPT !.currentPlayer = Toggle(s.currentPlayer)]

\* handleMove ending the game when the board is full and not on a line
handleMoveEndsOnFullBoardOnly(s, loc) ==
    LET moved == [writeMark(s, loc) EXCEPT !.currentPlayer = Toggle(s.currentPlayer)]
        w == checkForEndConditions(moved.gameState, Size(moved.gameState))
        checked == [moved EXCEPT !.winner = w]
    IN  IF NoSuchRow(s, loc) THEN writeMark(s, loc)
        ELSE IF checked.elapsedMoves = checked.maxMoveCount
        THEN notifyPlayerEndGame(checked, w)
        ELSE checked

handleMove(s, loc) ==
    LET moved == [writeMark(s, loc) EXCEPT !.currentPlayer = Toggle(s.currentPlayer)]
        w == checkForEndConditions(moved.gameState, Size(moved.gameState))
        checked == [moved EXCEPT !.winner = w]
    IN  IF NoSuchRow(s, loc) THEN writeMark(s, loc)
        ELSE IF w # None \/ checked.elapsedMoves = checked.maxMoveCount
        THEN notifyPlayerEndGame(checked, w)
        ELSE checked

\* the Squares of renderBoard with a 2 by 2 board taken as valid
MountedFromTwo(sq, d) ==
    IF d > 1
    THEN [loc \in Location(d) |-> IF loc \in DOMAIN sq THEN sq[loc] ELSE None]
    ELSE [loc \in {} |-> None]

\* the Squares renderBoard mounts for props.dimensions d: none below 3 (the
\* warning is shown instead); a Square that stays at its place in its row
\* keeps its instance and so its identity, a new one starts as None
Mounted(sq, d) ==
    IF d > 2
    THEN [loc \in Location(d) |-> IF loc \in DOMAIN sq THEN sq[loc] ELSE None]
    ELSE [loc \in {} |-> None]

\* the Board's render: every Square receives the current player and isGameOver
renderBoard(s) ==
    [s EXCEPT !.squares = Mounted(s.squares, s.dimensions),
              !.squareProps = [currentPlayer |-> s.currentPlayer,
                               isGameOver |-> s.isGameOver]]

\* the reaction on props.dimensions leaving the matrix as it is
dimensionReactionKeepsMatrix(s, d) ==
    IF d # s.dimensions
    THEN [s EXCEPT !.dimensions = d,
                   !.maxMoveCount = d * d]
    ELSE s

\* the reaction on props.dimensions: it runs when the value changes
dimensionReaction(s, d) ==
    IF d # s.dimensions
    THEN [s EXCEPT !.dimensions = d,
                   !.gameState = constructBoardLogic(d),
                   !.maxMoveCount = d * d]
    ELSE s

\* ------------------------------------------------------------------------
\* Square

\* canPlay without the isGameOver test
canPlayIgnoresGameOver(s, loc) == s.squares[loc] = None

\* canPlay without the identity test
canPlayIgnoresIdentity(s, loc) == ~s.squareProps.isGameOver

canPlay(s, loc) == s.squares[loc] = None /\ ~s.squareProps.isGameOver

makeMove(s, loc) ==
    IF canPlay(s, loc)
    THEN renderBoard(handleMove([s EXCEPT !.squares[loc] = s.squareProps.currentPlayer], loc))
    ELSE s

\* the class attribute of the element a Square renders
squareClassName == "square tile"

\* the event the Squares listen for, as the Board of src/unnamed/part_004
\* exports it (the Board of board.tsx exports no such name)
dropEventName == "dragTargetDropped"

\* the listeners a Square has added for the drop event, one at each render,
\* each calling makeMove
dropListeners(s, loc) == makeMove(makeMove(s, loc), loc)

\* the element of the Square at loc receives an event called name
dispatchEvent(s, loc, name) == IF name = dropEventName THEN dropListeners(s, loc) ELSE s

\* Board.onPointerUp with the pointer over the Square at loc: of the elements
\* under the pointer, the first whose className is exactly "square" is sent
\* the event "play"
onPointerUp(s, loc) ==
    IF squareClassName = "square" THEN dispatchEvent(s, loc, "play") ELSE s

\* ------------------------------------------------------------------------
\* AdvancedBoard

sliderMin == minimumDimensions

sliderMax == IF MaxDim < sliderMin THEN sliderMin ELSE MaxDim

shouldShowSlider(s) == ~hasGameStarted(s) /\ sliderMin < sliderMax

\* the value renderSlider leaves in place of d
Clamped(d) ==
    IF d > sliderMax THEN sliderMax
    ELSE IF d < sliderMin THEN sliderMin
    ELSE d

\* the dimensions setter, the Board's reaction and the render that follows;
\* renderSlider sets an out-of-range value to the nearer end of the range,
\* after the Board has been rendered once with the value as it was
setDimensions(s, d) ==
    LET first == renderBoard(dimensionReaction(s, d))
    IN  renderBoard(dimensionReaction(first, Clamped(d)))

\* a prop or field that is undefined or 0 counts as false
Falsy(a, k) == k \notin DOMAIN a \/ a[k] = 0

\* the props and fields a with sliderMin = lo and sliderMax = hi
WithRange(a, lo, hi) ==
    [k \in DOMAIN a \cup {"sliderMin", "sliderMax"} |->
        IF k = "sliderMin" THEN lo ELSE IF k = "sliderMax" THEN hi ELSE a[k]]

\* computeSliderRange without the test max < min
computeSliderRangeKeepsMax(a) ==
    IF ~(Falsy(a, "sliderMin") \/ Falsy(a, "sliderMax")) THEN a
    ELSE LET min0 == IF Falsy(a, "minimumDimensions") THEN 3 ELSE a.minimumDimensions
             max0 == IF Falsy(a, "maximumDimensions") THEN 7 ELSE a.maximumDimensions
             min1 == IF min0 < 0 THEN 3 ELSE min0
         IN  WithRange(a, min1, max0)

\* computeSliderRange: props and fields a with sliderMin and sliderMax set
computeSliderRange(a) ==
    IF ~(Falsy(a, "sliderMin") \/ Falsy(a, "sliderMax")) THEN a
    ELSE LET min0 == IF Falsy(a, "minimumDimensions") THEN 3 ELSE a.minimumDimensions
             max0 == IF Falsy(a, "maximumDimensions") THEN 7 ELSE a.maximumDimensions
             min1 == IF min0 < 0 THEN 3 ELSE min0
             max1 == IF max0 < min1 THEN min1 ELSE max0
         IN  WithRange(a, min1, max1)

\* the value renderSlider leaves in dimensions for the range of a
renderSlider(a, d) ==
    IF d > a.sliderMax THEN a.sliderMax
    ELSE IF d < a.sliderMin THEN a.sliderMin
    ELSE d

\* the props the entry point hands to AdvancedBoard, with the largest
\* dimension played here as maximum, and the range computed from them
entrySlider ==
    computeSliderRange([background |-> "#003", minimumDimensions |-> sliderMin,
                        maximumDimensions |-> sliderMax])

\* ------------------------------------------------------------------------
\* Requests and responses

StatePost(d) == [request |-> "POST /state", body |-> [dimensions |-> d]]

WinnerPost(w) == [request |-> "POST /winner", body |-> [winner |-> w]]

DimensionsGet == [request |-> "GET /dimensions"]

DimensionsResponse(body) == [response |-> "GET /dimensions", body |-> body]

\* the messages of a sequence, as a bag
RECURSIVE Messages(_)
Messages(q) == IF q = <<>> THEN EmptyBag ELSE SetToBag({Head(q)}) (+) Messages(Tail(q))

\* the onGameEnd handler AdvancedBoard hands to its Board, leaving out a draw
onGameEndSkipsDraw(w) == IF w = None THEN <<>> ELSE <<WinnerPost(w)>>

\* the onGameEnd handler AdvancedBoard hands to its Board: the request it sends
onGameEnd(w) == <<WinnerPost(w)>>

\* the requests the dimensions setter sends when d is assigned: one for d
\* and, when renderSlider assigns the nearer end of the range, one for that
setterPosts(d) ==
    IF Clamped(d) # d THEN <<StatePost(d), StatePost(Clamped(d))>> ELSE <<StatePost(d)>>

\* ------------------------------------------------------------------------
\* server/index.ts

\* the record cleanDatabase writes
cleanDatabase ==
    [dimensions |-> defaultDimensions, recordedWins |-> [x |-> 0, o |-> 0, none |-> 0]]

\* { ...a, ...b }: the fields of b, and those of a that b does not have
Spread(a, b) == [k \in DOMAIN a \cup DOMAIN b |-> IF k \in DOMAIN b THEN b[k] ELSE a[k]]

\* POST /state writing the body alone
postStateKeepsBodyOnly(db, body) == body

\* POST /state spreading the body over the default record, not the one read
postStateOverDefault(db, body) == Spread(cleanDatabase, body)

\* POST /state: the record written for the record read and the request body
postState(db, body) == Spread(db, body)

\* POST /winner writing the tally back as it was read
postWinnerKeepsTotal(db, body) ==
    LET total == db.recordedWins[body.winner]
    IN  [db EXCEPT !.recordedWins[body.winner] = total]

\* POST /winner writing the tallies without the rest of the record
postWinnerWritesTalliesOnly(db, body) ==
    LET total == db.recordedWins[body.winner]
    IN  [recordedWins |-> [db.recordedWins EXCEPT ![body.winner] = total + 1]]

\* POST /winner: the record written for the record read and the request body
postWinner(db, body) ==
    LET total == db.recordedWins[body.winner]
    IN  [db EXCEPT !.recordedWins[body.winner] = total + 1]

\* GET /dimensions: the body sent for the record read
getDimensions(db) == [dimensions |-> db.dimensions]

\* database.json does not exist: readFileSync ends with ENOENT
NoFile == [ENOENT |-> TRUE]

existsSync(db) == db # NoFile

\* the start-up code leaving a missing database.json missing
startUpWritesNothing(db) == db

\* the start-up code: database.json is written when it does not exist
startUp(db) == IF existsSync(db) THEN db ELSE cleanDatabase

\* GET / putting back the default dimensions alone
getRootKeepsWins(db) ==
    IF existsSync(db) THEN [db EXCEPT !.dimensions = defaultDimensions] ELSE cleanDatabase

\* GET /: the record written, whatever the file held
getRoot(db) == cleanDatabase

\* the requests of a visitor that are not sent by the page code
RootGet == [request |-> "GET /"]

StateFieldsPost(body) == [request |-> "POST /state", body |-> body]

\* GET /tic-tac-toe/stateful/:action with the given action
StatefulGet(act) == [request |-> "GET /tic-tac-toe/stateful/:action", action |-> act]

\* the responses of GET /tic-tac-toe/stateful/:action for the record db:
\* "state" sends the record, "clear" redirects, any other action sends nothing
statefulResponses(act, db) ==
    IF act = "state"
    THEN {[response |-> "GET /tic-tac-toe/stateful/:action", body |-> db]}
    ELSE IF act = "clear"
    THEN {[response |-> "GET /tic-tac-toe/stateful/:action", redirect |-> "/tic-tac-toe/stateful"]}
    ELSE {}

\* the record GET /tic-tac-toe/stateful/:action leaves on disk
statefulRecord(act, db) == IF act = "clear" THEN cleanDatabase ELSE db

\* what Express answers when a handler ends with an uncaught exception
InternalServerError(m) == [response |-> m.request, status |-> 500]

\* ------------------------------------------------------------------------
\* Events

\* dimensions the store can hold when the page loads
StoredDimensions == sliderMin..sliderMax

\* the squares the players aim at: every square of the smallest board; on a
\* larger board those of the first row and of the main diagonal
Targets ==
    {loc \in DOMAIN squares :
        dimensions > minimumDimensions => (loc.row = 0 \/ loc.row = loc.column)}

\* a Board whose field currentPlayer starts as O
FreshBoardStartsWithO(d) ==
    [dimensions |-> d,
     loadPending |-> FALSE,
     gameState |-> constructBoardLogic(d),
     maxMoveCount |-> d * d,
     elapsedMoves |-> 0,
     currentPlayer |-> O,
     isGameOver |-> FALSE,
     squares |-> Mounted([loc \in {} |-> None], d),
     squareProps |-> [currentPlayer |-> O, isGameOver |-> FALSE],
     gameEnded |-> <<>>,
     timers |-> <<>>,
     winner |-> Undefined,
     thrown |-> FALSE]

\* a Board as its field initialisers and its constructor leave it for
\* props.dimensions d, rendered once
FreshBoard(d) ==
    [dimensions |-> d,
     loadPending |-> FALSE,
     gameState |-> constructBoardLogic(d),
     maxMoveCount |-> d * d,
     elapsedMoves |-> 0,
     currentPlayer |-> X,
     isGameOver |-> FALSE,
     squares |-> Mounted([loc \in {} |-> None], d),
     squareProps |-> [currentPlayer |-> X, isGameOver |-> FALSE],
     gameEnded |-> <<>>,
     timers |-> <<>>,
     winner |-> Undefined,
     thrown |-> FALSE]

\* the page as it is right after loading: AdvancedBoard has mounted its Board
\* and sent GET /dimensions
FreshPage == [FreshBoard(initialDimensions) EXCEPT !.loadPending = TRUE]

\* the fields of the page are those of s
Is(s) ==
    /\ dimensions = s.dimensions
    /\ loadPending = s.loadPending
    /\ gameState = s.gameState
    /\ maxMoveCount = s.maxMoveCount
    /\ elapsedMoves = s.elapsedMoves
    /\ currentPlayer = s.currentPlayer
    /\ isGameOver = s.isGameOver
    /\ squares = s.squares
    /\ squareProps = s.squareProps
    /\ gameEnded = s.gameEnded
    /\ timers = s.timers
    /\ winner = s.winner
    /\ thrown = s.thrown

Init ==
    /\ Is(FreshPage)
    /\ database = cleanDatabase
    /\ network = EmptyBag
    /\ listening = TRUE
    /\ slider = entrySlider

\* onClick of the Square at loc
Click(loc) == Becomes(makeMove(Page, loc))

\* onContextMenu of the Square at loc
ContextMenu(loc) == Becomes(makeMove(Page, loc))

\* the drag target is dropped on the Square at loc: every render of the
\* Square has added one more listener, and each listener makes the move
Drop(loc) == Becomes(makeMove(makeMove(Page, loc), loc))

\* the slider is moved to d
SliderChange(d) ==
    /\ shouldShowSlider(Page)
    /\ d # dimensions
    /\ Becomes(setDimensions(Page, d))

\* the answer to GET /dimensions arrives with the stored dimension d
DimensionsLoaded(d) ==
    /\ loadPending
    /\ Becomes(setDimensions([Page EXCEPT !.loadPending = FALSE], d))

\* a pending timeout fires: the alert is shown and the page reloads
AlertAndReload ==
    /\ timers # <<>>
    /\ Becomes(FreshPage)

\* the page taken alone: the requests it sends leave it and are not followed,
\* and the response to GET /dimensions carries any dimension the store may hold
Isolated == UNCHANGED <<database, network, listening, slider>>

Next ==
    \/ \E loc \in Targets : Click(loc) /\ Isolated
    \/ \E loc \in Targets : ContextMenu(loc) /\ Isolated
    \/ \E loc \in Targets : Drop(loc) /\ Isolated
    \/ \E d \in sliderMin..sliderMax : SliderChange(d) /\ Isolated
    \/ \E d \in StoredDimensions :
            elapsedMoves <= MaxMovesBeforeLoad /\ DimensionsLoaded(d) /\ Isolated
    \/ AlertAndReload /\ Isolated

Spec == Init /\ [][Next]_vars

\* the page alone, with timeouts that fire: a timeout set by setTimeout is
\* run by the event loop after its delay, whatever else the page does
SpecTimed == Init /\ [][Next]_vars /\ WF_vars(AlertAndReload /\ Isolated)

\* ------------------------------------------------------------------------
\* A Board mounted on its own, for any props.dimensions

\* the dimensions a parent can hand to the Board
BoardDimensions == 0..MaxDim

InitBoard ==
    /\ \E d \in BoardDimensions : Is(FreshBoard(d))
    /\ database = cleanDatabase
    /\ network = EmptyBag
    /\ listening = TRUE
    /\ slider = entrySlider

\* the drag target is released where no element of class "square" lies: no
\* event is dispatched, and the drag target goes back to its place
PointerUpOffSquare == UNCHANGED pageVars

\* the drag target is released over the Square at loc
PointerUpOnSquare(loc) == Becomes(onPointerUp(Page, loc))

\* a pending timeout fires: the alert is shown and the page reloads, which
\* mounts the Board again with the same props
AlertAndReloadBoard ==
    /\ timers # <<>>
    /\ Becomes(FreshBoard(dimensions))

NextBoard ==
    \/ \E loc \in Targets : Click(loc) /\ Isolated
    \/ \E loc \in Targets : ContextMenu(loc) /\ Isolated
    \/ \E loc \in Targets : Drop(loc) /\ Isolated
    \/ PointerUpOffSquare /\ Isolated
    \/ \E loc \in Targets : PointerUpOnSquare(loc) /\ Isolated
    \/ AlertAndReloadBoard /\ Isolated

SpecBoard == InitBoard /\ [][NextBoard]_vars

\* ------------------------------------------------------------------------
\* Board.handleMove called as props.notifyBoard with any location

\* the locations handed to notifyBoard: those of the largest board and the
\* ones next to it on every side
NotifyLocations == [row : (0 - 1)..MaxDim, column : (0 - 1)..MaxDim]

\* notifyBoard(loc), and the render that follows the change of the observables
NotifyBoard(loc) ==
    /\ elapsedMoves < MaxNotifications
    /\ Becomes(renderBoard(handleMove(Page, loc)))

NextNotify == \E loc \in NotifyLocations : NotifyBoard(loc) /\ Isolated

SpecNotify == InitBoard /\ [][NextNotify]_vars

\* ------------------------------------------------------------------------
\* The page with a slow response to GET /dimensions

\* the place of a square in reading order
ReadingOrder(loc) == loc.row * dimensions + loc.column

\* the players fill the board in reading order, each taking the first empty
\* square or the one after it
LateTargets ==
    LET empty == {loc \in DOMAIN squares : squares[loc] = None}
    IN  {loc \in empty :
            Cardinality({other \in empty : ReadingOrder(other) < ReadingOrder(loc)}) <= 1}

NextLate ==
    \/ \E loc \in LateTargets : Click(loc) /\ Isolated
    \/ \E d \in sliderMin..sliderMax : SliderChange(d) /\ Isolated
    \/ \E d \in StoredDimensions :
            elapsedMoves <= MaxMovesBeforeLateLoad /\ DimensionsLoaded(d) /\ Isolated
    \/ AlertAndReload /\ Isolated

SpecLate == Init /\ [][NextLate]_vars

\* ------------------------------------------------------------------------
\* The page, the requests in flight and the server together

\* the games played: X takes the top row (of a 3 by 3 or a 4 by 4 board),
\* O takes the middle row, or the board is filled without a line
Scripts ==
    {<<Loc(0, 0), Loc(1, 0), Loc(0, 1), Loc(1, 1), Loc(0, 2), Loc(1, 2), Loc(0, 3)>>,
     <<Loc(0, 0), Loc(1, 0), Loc(0, 1), Loc(1, 1), Loc(2, 2), Loc(1, 2)>>,
     <<Loc(0, 0), Loc(0, 1), Loc(0, 2), Loc(1, 1), Loc(1, 0), Loc(1, 2), Loc(2, 1),
       Loc(2, 0), Loc(2, 2)>>}

\* the squares the players aim at next: the next one of a game whose moves
\* so far have been made
SessionTargets ==
    {loc \in DOMAIN squares :
        \E script \in Scripts :
            /\ elapsedMoves < Len(script)
            /\ loc = script[elapsedMoves + 1]
            /\ \A i \in 1..elapsedMoves :
                script[i] \in DOMAIN squares /\ squares[script[i]] # None}

\* the requests sent for the calls of onGameEnd from the from-th on
RECURSIVE Reported(_, _)
Reported(calls, from) ==
    IF from > Len(calls) THEN <<>>
    ELSE onGameEnd(calls[from]) \o Reported(calls, from + 1)

\* the network once the page that waited for the response is gone
Forgotten(net) ==
    LET kept == {m \in BagToSet(net) : "request" \in DOMAIN m /\ m # DimensionsGet}
    IN  [m \in kept |-> net[m]]

\* the results recorded and about to be
Tallied(db) == db.recordedWins[X] + db.recordedWins[O] + db.recordedWins[None]

WinnerPosts(net) ==
    CopiesIn(WinnerPost(X), net) + CopiesIn(WinnerPost(O), net)
        + CopiesIn(WinnerPost(None), net)

InitSession ==
    /\ Is(FreshPage)
    /\ database = cleanDatabase
    /\ network = SetToBag({DimensionsGet})
    /\ listening = TRUE
    /\ slider = entrySlider

\* the Square at loc is clicked; the requests of onGameEnd leave the page
SessionClick(loc) ==
    /\ Click(loc)
    /\ network' = network (+) Messages(Reported(makeMove(Page, loc).gameEnded,
                                                 Len(gameEnded) + 1))
    /\ UNCHANGED <<database, listening, slider>>

\* the slider is moved to d; the request of the setter leaves the page
SessionSlider(d) ==
    /\ BagCardinality(network) < MaxInFlight
    /\ SliderChange(d)
    /\ network' = network (+) Messages(setterPosts(d))
    /\ UNCHANGED <<database, listening, slider>>

\* the response to GET /dimensions reaches the page
SessionLoaded(d) ==
    /\ BagIn(DimensionsResponse([dimensions |-> d]), network)
    /\ elapsedMoves <= MaxMovesBeforeLoad
    /\ DimensionsLoaded(d)
    /\ network' = (network (-) SetToBag({DimensionsResponse([dimensions |-> d])}))
                    (+) Messages(setterPosts(d))
    /\ UNCHANGED <<database, listening, slider>>

\* the alert is shown and the page reloads: the new page sends GET /dimensions
SessionReload ==
    /\ Tallied(database) + WinnerPosts(network) < MaxGames
    /\ AlertAndReload
    /\ network' = Forgotten(network) (+) SetToBag({DimensionsGet})
    /\ UNCHANGED <<database, listening, slider>>

\* the server handles a POST /state
ServeState(d) ==
    /\ BagIn(StatePost(d), network)
    /\ database' = postState(database, StatePost(d).body)
    /\ network' = network (-) SetToBag({StatePost(d)})
    /\ UNCHANGED <<pageVars, listening, slider>>

\* the server handles a POST /winner
ServeWinner(w) ==
    /\ BagIn(WinnerPost(w), network)
    /\ database' = postWinner(database, WinnerPost(w).body)
    /\ network' = network (-) SetToBag({WinnerPost(w)})
    /\ UNCHANGED <<pageVars, listening, slider>>

\* the server handles a GET /dimensions
ServeDimensions ==
    /\ BagIn(DimensionsGet, network)
    /\ network' = (network (-) SetToBag({DimensionsGet}))
                    (+) SetToBag({DimensionsResponse(getDimensions(database))})
    /\ UNCHANGED <<pageVars, database, listening, slider>>

NextSession ==
    \/ \E loc \in SessionTargets : SessionClick(loc)
    \/ \E d \in sliderMin..sliderMax : SessionSlider(d)
    \/ \E d \in StoredDimensions : SessionLoaded(d)
    \/ SessionReload
    \/ \E d \in StoredDimensions : ServeState(d)
    \/ \E w \in Identity : ServeWinner(w)
    \/ ServeDimensions

SpecSession == InitSession /\ [][NextSession]_vars

\* ------------------------------------------------------------------------
\* AdvancedBoard with any props, before any move

\* the values of the props minimumDimensions and maximumDimensions
PropValues == (0 - 1)..(MaxDim + 1)

\* the props AdvancedBoard can be given: each of the two may be left out
PropChoices ==
    {[background |-> "#003"]}
        \cup {[background |-> "#003", minimumDimensions |-> a] : a \in PropValues}
        \cup {[background |-> "#003", maximumDimensions |-> b] : b \in PropValues}
        \cup {[background |-> "#003", minimumDimensions |-> a, maximumDimensions |-> b] :
                    a \in PropValues, b \in PropValues}

\* the dimensions the store can hold, whatever the slider range
RangeDimensions == 0..8

\* AdvancedBoard is constructed with some props and has not rendered yet
InitRange ==
    /\ Is(FreshPage)
    /\ database = cleanDatabase
    /\ network = EmptyBag
    /\ listening = TRUE
    /\ slider \in PropChoices

\* d is assigned to dimensions and AdvancedBoard renders: the Board is handed
\* d, renderSlider computes the range and assigns the nearer end of the range
\* when d lies outside, which renders once more
Rendered(s, d) ==
    /\ slider' = computeSliderRange(slider)
    /\ LET first == renderBoard(dimensionReaction(s, d))
           last == renderBoard(dimensionReaction(first, renderSlider(slider', d)))
       IN  Becomes(last)

\* the first render of AdvancedBoard
RangeMount ==
    /\ "sliderMin" \notin DOMAIN slider
    /\ Rendered(Page, dimensions)

\* the response to GET /dimensions arrives with the stored dimension d
RangeLoaded(d) ==
    /\ "sliderMin" \in DOMAIN slider
    /\ loadPending
    /\ Rendered([Page EXCEPT !.loadPending = FALSE], d)

\* the slider is moved to d
RangeSlider(d) ==
    /\ "sliderMin" \in DOMAIN slider
    /\ slider.sliderMin < slider.sliderMax
    /\ ~hasGameStarted(Page)
    /\ d \in slider.sliderMin..slider.sliderMax
    /\ d # dimensions
    /\ Rendered(Page, d)

NextRange ==
    \/ RangeMount /\ UNCHANGED <<database, network, listening>>
    \/ \E d \in RangeDimensions : RangeLoaded(d) /\ UNCHANGED <<database, network, listening>>
    \/ \E d \in RangeDimensions : RangeSlider(d) /\ UNCHANGED <<database, network, listening>>

SpecRange == InitRange /\ [][NextRange]_vars

\* ------------------------------------------------------------------------
\* The basic Board (src/client/board.tsx) and its Squares (src/client/square.tsx)

\* the size the entry point hands to the basic Board
basicSize == 3

\* Board.notifyPlayerEndGame of the basic Board: the timeout is set
basicNotifyPlayerEndGame(s, message) == [s EXCEPT !.timers = Append(@, message)]

\* Board.handleMove of the basic Board, called by a Square with its identity
basicHandleMove(s, identity, loc) ==
    LET moved == [s EXCEPT !.elapsedMoves = @ + 1,
                           !.gameState[loc.row][loc.column] = identity]
        w == checkForEndConditions(moved.gameState, s.dimensions)
        checked == [moved EXCEPT !.winner = w]
    IN  IF w # None THEN basicNotifyPlayerEndGame(checked, Message(w))
        ELSE IF checked.elapsedMoves = checked.maxMoveCount
        THEN basicNotifyPlayerEndGame(checked, Message(None))
        ELSE checked

\* Square.displayIdentity of the basic Square at loc
displayIdentity(s, target, loc) ==
    IF s.squares[loc] = None
    THEN basicHandleMove([s EXCEPT !.squares[loc] = target], target, loc)
    ELSE s

InitBasic ==
    /\ Is(FreshBoard(basicSize))
    /\ database = cleanDatabase
    /\ network = EmptyBag
    /\ listening = TRUE
    /\ slider = entrySlider

\* onClick of the basic Square at loc
BasicClick(loc) == Becomes(displayIdentity(Page, X, loc))

\* onContextMenu of the basic Square at loc
BasicContextMenu(loc) == Becomes(displayIdentity(Page, O, loc))

\* the first pending timeout fires: the alert is shown and the page reloads
BasicAlertAndReload ==
    /\ timers # <<>>
    /\ Becomes(FreshBoard(basicSize))

NextBasic ==
    \/ \E loc \in Location(basicSize) : BasicClick(loc) /\ Isolated
    \/ \E loc \in Location(basicSize) : BasicContextMenu(loc) /\ Isolated
    \/ BasicAlertAndReload /\ Isolated

SpecBasic == InitBasic /\ [][NextBasic]_vars

\* ------------------------------------------------------------------------
\* One page after the stored dimension has reached it, and the server

\* the page shows the stored dimension d, and the request the setter sent
\* when the response was assigned has been handled
InitSelect ==
    /\ \E d \in StoredDimensions :
            /\ Is(setDimensions([FreshPage EXCEPT !.loadPending = FALSE], d))
            /\ database = postState(cleanDatabase, StatePost(d).body)
    /\ network = EmptyBag
    /\ listening = TRUE
    /\ slider = entrySlider

NextSelect ==
    \/ \E loc \in SessionTargets : SessionClick(loc)
    \/ \E d \in sliderMin..sliderMax : SessionSlider(d)
    \/ \E d \in StoredDimensions : ServeState(d)
    \/ \E w \in Identity : ServeWinner(w)

SpecSelect == InitSelect /\ [][NextSelect]_vars

\* ------------------------------------------------------------------------
\* The server alone, from its start, with the requests of any client

\* the dimensions a request body can carry
BodyDimensions == 0..MaxDim

\* the tallies a request body can carry
BodyWins == {[x |-> 0, o |-> 0, none |-> 0], [x |-> 1, o |-> 0, none |-> 1]}

\* the bodies of POST /state: some of the fields of the record
StateBodies ==
    {[dimensions |-> d] : d \in BodyDimensions}
        \cup {[recordedWins |-> r] : r \in BodyWins}
        \cup {[dimensions |-> d, recordedWins |-> r] : d \in BodyDimensions, r \in BodyWins}

StoreRequests ==
    {RootGet, DimensionsGet} \cup {WinnerPost(w) : w \in Identity}
        \cup {StateFieldsPost(body) : body \in StateBodies}

\* database.json as an earlier run of the server can have left it
LeftOnDisk ==
    {NoFile, cleanDatabase, [dimensions |-> MaxDim, recordedWins |-> [x |-> 1, o |-> 0, none |-> 0]]}

InitStore ==
    /\ Is(FreshPage)
    /\ database \in LeftOnDisk
    /\ network = EmptyBag
    /\ listening = FALSE
    /\ slider = entrySlider

\* the server process starts: the start-up code runs, then the server listens
Listen ==
    /\ ~listening
    /\ listening' = TRUE
    /\ database' = startUp(database)
    /\ UNCHANGED <<pageVars, network, slider>>

\* a client sends the request m
StoreRequest(m) ==
    /\ listening
    /\ BagCardinality(network) < MaxInFlight
    /\ m.request = "POST /winner" =>
            /\ existsSync(database)
            /\ Tallied(database) + WinnerPosts(network) < MaxGames
    /\ network' = network (+) SetToBag({m})
    /\ UNCHANGED <<pageVars, database, listening, slider>>

\* the server handles a GET /; the redirection is not followed here
StoreRoot ==
    /\ listening
    /\ BagIn(RootGet, network)
    /\ database' = getRoot(database)
    /\ network' = network (-) SetToBag({RootGet})
    /\ UNCHANGED <<pageVars, listening, slider>>

\* the server handles the POST /state m: read() throws when there is no file
StoreState(m) ==
    /\ listening
    /\ m.request = "POST /state"
    /\ BagIn(m, network)
    /\ database' = IF existsSync(database) THEN postState(database, m.body) ELSE database
    /\ network' = network (-) SetToBag({m})
    /\ UNCHANGED <<pageVars, listening, slider>>

\* the server handles the POST /winner m: read() throws when there is no file
StoreWinner(m) ==
    /\ listening
    /\ m.request = "POST /winner"
    /\ BagIn(m, network)
    /\ database' = IF existsSync(database) THEN postWinner(database, m.body) ELSE database
    /\ network' = network (-) SetToBag({m})
    /\ UNCHANGED <<pageVars, listening, slider>>

\* the server handles a GET /dimensions: read() throws when there is no file
StoreDimensions ==
    /\ listening
    /\ BagIn(DimensionsGet, network)
    /\ network' = (network (-) SetToBag({DimensionsGet}))
                    (+) SetToBag({IF existsSync(database)
                                  THEN DimensionsResponse(getDimensions(database))
                                  ELSE InternalServerError(DimensionsGet)})
    /\ UNCHANGED <<pageVars, database, listening, slider>>

\* the client takes the response m
StoreResponse(m) ==
    /\ "response" \in DOMAIN m
    /\ BagIn(m, network)
    /\ network' = network (-) SetToBag({m})
    /\ UNCHANGED <<pageVars, database, listening, slider>>

NextStore ==
    \/ Listen
    \/ \E m \in StoreRequests : StoreRequest(m)
    \/ StoreRoot
    \/ \E m \in StoreRequests : StoreState(m)
    \/ \E m \in StoreRequests : StoreWinner(m)
    \/ StoreDimensions
    \/ \E m \in BagToSet(network) : StoreResponse(m)

SpecStore == InitStore /\ [][NextStore]_vars

\* ------------------------------------------------------------------------
\* The server and the requests of the stateful page

\* the values of :action: the two the handler knows and one it does not
StatefulActions == {"state", "clear", "reset"}

StatefulRequests ==
    {StatefulGet(act) : act \in StatefulActions} \cup {WinnerPost(w) : w \in Identity}

\* the server handles the GET /tic-tac-toe/stateful/:action m; read() throws
\* when there is no file
StoreStateful(m) ==
    /\ listening
    /\ m.request = "GET /tic-tac-toe/stateful/:action"
    /\ BagIn(m, network)
    /\ database' = statefulRecord(m.action, database)
    /\ network' = (network (-) SetToBag({m}))
                    (+) SetToBag(IF m.action = "state" /\ ~existsSync(database)
                                 THEN {InternalServerError(m)}
                                 ELSE statefulResponses(m.action, database))
    /\ UNCHANGED <<pageVars, listening, slider>>

NextStateful ==
    \/ Listen
    \/ \E m \in StatefulRequests : StoreRequest(m)
    \/ \E m \in StatefulRequests : StoreWinner(m)
    \/ \E m \in StatefulRequests : StoreStateful(m)
    \/ \E m \in BagToSet(network) : StoreResponse(m)

SpecStateful == InitStore /\ [][NextStateful]_vars

\* ------------------------------------------------------------------------
\* The analysis on directly constructed grids

\* every n by n matrix over Identity
Grids(n) == [0..(n - 1) -> [0..(n - 1) -> Identity]]

InitEval ==
    /\ dimensions \in 1..MaxEvalDim
    /\ gameState \in Grids(dimensions)
    /\ maxMoveCount = dimensions * dimensions
    /\ loadPending = FALSE
    /\ elapsedMoves = 0
    /\ currentPlayer = X
    /\ isGameOver = FALSE
    /\ squares = Mounted([loc \in {} |-> None], dimensions)
    /\ squareProps = [currentPlayer |-> X, isGameOver |-> FALSE]
    /\ gameEnded = <<>>
    /\ timers = <<>>
    /\ winner = Undefined
    /\ thrown = FALSE
    /\ database = cleanDatabase
    /\ network = EmptyBag
    /\ listening = TRUE
    /\ slider = entrySlider

\* winner = checkForEndConditions(gameState, size) on the constructed grid
Analyse ==
    /\ winner = Undefined
    /\ winner' = checkForEndConditions(gameState, dimensions)
    /\ UNCHANGED <<dimensions, loadPending, gameState, maxMoveCount, elapsedMoves,
                   currentPlayer, isGameOver, squares, squareProps, gameEnded, timers,
                   thrown, database, network, listening, slider>>

NextEval == Analyse

SpecEval == InitEval /\ [][NextEval]_vars

\* ------------------------------------------------------------------------
\* Lines of a board, as the properties below speak of them

At(g, loc) == g[loc.row][loc.column]

RowLine(n, r) == {Loc(r, c) : c \in 0..(n - 1)}

ColumnLine(n, c) == {Loc(r, c) : r \in 0..(n - 1)}

MainDiagonal(n) == {Loc(i, i) : i \in 0..(n - 1)}

AntiDiagonal(n) == {Loc(i, (n - 1) - i) : i \in 0..(n - 1)}

Lines(n) ==
    {RowLine(n, r) : r \in 0..(n - 1)} \cup {ColumnLine(n, c) : c \in 0..(n - 1)}
        \cup {MainDiagonal(n), AntiDiagonal(n)}

\* every cell of the line holds p
Owns(g, line, p) == \A loc \in line : At(g, loc) = p

\* the identities that hold a complete line of the n by n grid g
Owners(g, n) == {p \in {X, O} : \E line \in Lines(n) : Owns(g, line, p)}

Opponent(p) == IF p = X THEN O ELSE X

\* whose turn it is after k accepted moves when X moves first
Parity(k) == IF k % 2 = 0 THEN X ELSE O

\* this step is an accepted move
Accepted == elapsedMoves' = elapsedMoves + 1

\* this step is an accepted move that writes p into the empty cell loc of the grid
Marks(loc, p) == Accepted /\ At(gameState, loc) = None /\ At(gameState', loc) = p

\* this step is an accepted move by which p fills the last open cell of a line
\* whose other cells p already holds
CompletesLine(p) ==
    /\ Accepted
    /\ \E line \in Lines(dimensions) : \E loc \in line :
        /\ Marks(loc, p)
        /\ \A other \in line \ {loc} : At(gameState, other) = p

\* this step calls the end-of-game routine with w: onGameEnd(w), one more timeout
EndsGameWith(w) ==
    /\ isGameOver'
    /\ gameEnded' = Append(gameEnded, w)
    /\ timers' = Append(timers, Message(w))

\* no activation of the Square at loc changes anything: neither one call of
\* makeMove (click, right click) nor the repeated calls of a drop
Ignored(loc) ==
    /\ makeMove(Page, loc) = Page
    /\ makeMove(makeMove(Page, loc), loc) = Page

\* ------------------------------------------------------------------------
\* Properties

\* C1: an accepted move by which player P fills the last cell of a row, a
\* column or a diagonal whose other cells P already holds ends the game on
\* that very move, and the end-of-game routine is called with winner P.
C1_WinningMoveEndsGame ==
    [][\A p \in {X, O} : CompletesLine(p) => (EndsGameWith(p) /\ winner' = p)]_vars

\* C1 happens: O has won by a column and the routine was called with O
C1_Witness ==
    /\ isGameOver
    /\ gameEnded = <<O>>
    /\ \E c \in 0..(dimensions - 1) : Owns(gameState, ColumnLine(dimensions, c), O)

\* C2: while fewer than N * N moves have been accepted and no line has been
\* completed the game stays in progress with no notification issued, the
\* player to move is X after an even and O after an odd number of moves, and
\* every accepted move places the mark of the player whose turn it is (the
\* first one an X); the game leaves "in progress" only by an accepted move
\* that completes a line or is the N * N-th.
C2_InProgressAndAlternating ==
    /\ [](~isGameOver =>
            /\ currentPlayer = Parity(elapsedMoves)
            /\ gameEnded = <<>>
            /\ timers = <<>>)
    /\ [][Accepted =>
            \E loc \in DOMAIN squares :
                /\ squares[loc] = None
                /\ squares'[loc] = Parity(elapsedMoves)
                /\ Marks(loc, Parity(elapsedMoves))]_vars
    /\ [][(~isGameOver /\ isGameOver') =>
            /\ Accepted
            /\ \/ Owners(gameState', dimensions) # {}
               \/ elapsedMoves' = dimensions * dimensions]_vars

\* C2 happens: eight moves on the 3 by 3 board, no line, X to move
C2_Witness ==
    /\ dimensions = 3
    /\ elapsedMoves = 8
    /\ Owners(gameState, dimensions) = {}
    /\ ~isGameOver
    /\ currentPlayer = X

\* C3: a step declares a draw (calls the end-of-game routine with None)
\* exactly when it is an accepted move after which the move count is N * N
\* and no line is complete; the N * N-th move that completes a line ends the
\* game as a win of the mover.
C3_DrawExactlyAtFullCount ==
    [][/\ EndsGameWith(None) <=>
            /\ Accepted
            /\ elapsedMoves' = dimensions * dimensions
            /\ Owners(gameState', dimensions) = {}
       /\ \A p \in {X, O} :
            (CompletesLine(p) /\ elapsedMoves' = dimensions * dimensions)
                => EndsGameWith(p)]_vars

\* C3 happens: the ninth move filled the 3 by 3 board without a line
C3_Witness ==
    /\ dimensions = 3
    /\ elapsedMoves = 9
    /\ Owners(gameState, dimensions) = {}
    /\ isGameOver
    /\ gameEnded = <<None>>

\* C4: once the game is over, activating any square by a click, a right
\* click or a drop changes nothing: grid, move count, player, outcome and
\* notifications stay as they are.
C4_TerminalIsSticky ==
    isGameOver => \A loc \in DOMAIN squares : Ignored(loc)

\* C4 happens: the game is over, the alert is still pending and some square
\* is still empty
C4_Witness ==
    /\ isGameOver
    /\ timers # <<>>
    /\ \E loc \in DOMAIN squares : squares[loc] = None /\ At(gameState, loc) = None

\* C5: activating an occupied square, whoever holds it and however often,
\* changes nothing.
C5_OccupiedIsIgnored ==
    \A loc \in DOMAIN squares :
        (squares[loc] # None \/ At(gameState, loc) # None) => Ignored(loc)

\* C5 happens: the game is in progress and both players hold squares
C5_Witness ==
    /\ ~isGameOver
    /\ \E loc \in DOMAIN squares : squares[loc] = X
    /\ \E loc \in DOMAIN squares : squares[loc] = O

\* C6: the end-of-game notification (onGameEnd and the scheduled alert) has
\* been issued exactly once when the game is over and not at all before.
C6_NotifiedExactlyOnce ==
    /\ Len(gameEnded) = (IF isGameOver THEN 1 ELSE 0)
    /\ Len(timers) = Len(gameEnded)

\* C6 happens: X has won on a 3 by 3 board after seven moves, with squares
\* left to activate
C6_Witness ==
    /\ isGameOver
    /\ elapsedMoves = 7
    /\ gameEnded = <<X>>
    /\ Len(timers) = 1

\* C7 as stated: for every identity I that holds a complete line of the grid
\* the analysis returns I.
C7_ReturnsEveryOwner ==
    winner # Undefined =>
        \A p \in Owners(gameState, dimensions) : winner = p

\* C7 amended: a grid with a complete line yields the identity of a complete
\* line; it is I whenever I is the only identity that holds one.
C7_ReturnsAnOwner ==
    (winner # Undefined /\ Owners(gameState, dimensions) # {}) =>
        winner \in Owners(gameState, dimensions)

\* C7 happens: only the anti-diagonal is complete, for O, and O is returned
C7_Witness ==
    /\ winner = O
    /\ dimensions = 3
    /\ \A line \in Lines(dimensions) :
        (\E p \in {X, O} : Owns(gameState, line, p)) <=> line = AntiDiagonal(dimensions)

\* C8: a grid without a complete line yields None.
C8_NoLineNoWinner ==
    (winner # Undefined /\ Owners(gameState, dimensions) = {}) => winner = None

\* C8 happens: a row starts with two X and ends differently, nothing is
\* complete, and None is returned
C8_Witness ==
    /\ winner = None
    /\ dimensions = 3
    /\ gameState[0][0] = X /\ gameState[0][1] = X /\ gameState[0][2] = O
    /\ gameState[1][0] = O /\ gameState[2][0] = None

\* the lines in scan order: rows from the top, columns from the left, the
\* main diagonal, the anti-diagonal
ScanLine(n, i) ==
    IF i <= n THEN RowLine(n, i - 1)
    ELSE IF i <= 2 * n THEN ColumnLine(n, i - n - 1)
    ELSE IF i = 2 * n + 1 THEN MainDiagonal(n)
    ELSE AntiDiagonal(n)

\* the places in the scan order of the complete lines of g
CompletePlaces(g, n) ==
    {i \in 1..(2 * n + 2) : \E p \in {X, O} : Owns(g, ScanLine(n, i), p)}

\* the identity holding the first complete line in scan order
FirstInScanOrder(g, n) ==
    LET first == CHOOSE i \in CompletePlaces(g, n) : \A j \in CompletePlaces(g, n) : i <= j
    IN  CHOOSE p \in {X, O} : Owns(g, ScanLine(n, first), p)

\* C9: on a grid with several complete lines the analysis returns the
\* identity of the one that comes first in the scan order.
C9_FirstLineInScanOrder ==
    (winner # Undefined /\ Cardinality(CompletePlaces(gameState, dimensions)) >= 2) =>
        winner = FirstInScanOrder(gameState, dimensions)

\* C9 happens: the top row is O, the row below is X, and O is returned
C9_Witness ==
    /\ winner = O
    /\ dimensions = 3
    /\ Owns(gameState, RowLine(3, 0), O)
    /\ Owns(gameState, RowLine(3, 1), X)

\* C10 as stated: after the move by which P wins the active player is still P.
C10_WinnerStaysActive ==
    [][\A p \in {X, O} : CompletesLine(p) => currentPlayer' = p]_vars

\* C10 amended: the move by which P wins toggles the active player like any
\* other accepted move, so that the opponent of P is the current player of
\* the finished game.
C10_WinningMoveToggles ==
    [][\A p \in {X, O} : CompletesLine(p) => currentPlayer' = Opponent(p)]_vars

\* C10 happens: X (0,0), O (1,1), X (0,1), O (2,2), X (0,2): X has won with the
\* top row and O is the current player
C10_Witness ==
    /\ dimensions = 3
    /\ elapsedMoves = 5
    /\ gameState = [constructBoardLogic(3) EXCEPT ![0] = [c \in 0..2 |-> X],
                                                 ![1][1] = O, ![2][2] = O]
    /\ gameEnded = <<X>>
    /\ currentPlayer = O

\* this step is the reload of the page, which starts a new game
Reset == timers # <<>> /\ timers' = <<>>

\* every cell of the grid holds None
AllNone(g) == \A r \in DOMAIN g : \A c \in DOMAIN g[r] : g[r][c] = None

\* C11: within a game a cell of the grid that holds X or O keeps that
\* identity: no step other than the reset of the game, be it an activation
\* or a rebuild of the grid for another dimension, changes or empties it.
C11_CellsKeepIdentity ==
    [][Reset \/ \A loc \in Location(dimensions) :
            At(gameState, loc) # None =>
                /\ loc \in Location(dimensions')
                /\ At(gameState', loc) = At(gameState, loc)]_vars

\* C12: the grid has exactly N rows of exactly N cells, each an identity,
\* where N is the dimension the Board currently has.
C12_GridIsSquare ==
    /\ DOMAIN gameState = 0..(dimensions - 1)
    /\ \A r \in DOMAIN gameState :
        /\ DOMAIN gameState[r] = 0..(dimensions - 1)
        /\ \A c \in DOMAIN gameState[r] : gameState[r][c] \in Identity

\* C12 happens: the dimension has changed to 4 after the first move and
\* another move has been made on the rebuilt grid
C12_Witness ==
    /\ dimensions = 4
    /\ elapsedMoves = 2
    /\ ~loadPending
    /\ ~AllNone(gameState)

\* C14: a grid that is entirely None belongs to a game that has not begun:
\* no move counted, X to move, game in progress.
C14_EmptyGridIsFreshGame ==
    AllNone(gameState) => (elapsedMoves = 0 /\ currentPlayer = X /\ ~isGameOver)

\* C13: the move count lies between 0 and N * N, which is maxMoveCount for
\* the dimension N the Board currently has.
C13_CountWithinBoard ==
    /\ 0 <= elapsedMoves
    /\ elapsedMoves <= dimensions * dimensions
    /\ maxMoveCount = dimensions * dimensions

\* C15: a Board whose dimension N is below 3 shows the warning and no
\* squares; its grid is N by N and all None, and whatever events reach it no
\* move is counted and no game ends.
C15_SmallBoardAcceptsNoMove ==
    dimensions < 3 =>
        /\ DOMAIN squares = {}
        /\ gameState = [r \in 0..(dimensions - 1) |-> [c \in 0..(dimensions - 1) |-> None]]
        /\ elapsedMoves = 0
        /\ ~isGameOver
        /\ gameEnded = <<>>
        /\ timers = <<>>

\* C15 happens: a Board of dimension 2, with its 2 by 2 grid and no squares
C15_Witness ==
    /\ dimensions = 2
    /\ Size(gameState) = 2
    /\ Size(gameState[0]) = 2
    /\ DOMAIN squares = {}

\* the locations next to the board that lie outside it
Outside == NotifyLocations \ Location(dimensions)

C17_FreshUntilFirstMove ==
    elapsedMoves = 0 =>
        /\ Size(gameState) = dimensions
        /\ \A r \in DOMAIN gameState : Size(gameState[r]) = dimensions
        /\ AllNone(gameState)
        /\ currentPlayer = X
        /\ squareProps.currentPlayer = X
        /\ ~isGameOver
        /\ winner = Undefined

\* C17 happens: a Board constructed for dimension 4, before its first move
C17_Witness ==
    /\ dimensions = 4
    /\ elapsedMoves = 0
    /\ Size(gameState) = 4
    /\ AllNone(gameState)

\* this step ends the game
GameEnds == ~isGameOver /\ isGameOver'

\* this step is the server handling the request m and nothing else
Served(m) ==
    /\ BagIn(m, network)
    /\ network' = network (-) SetToBag({m})
    /\ UNCHANGED pageVars

\* C18: the step that ends a game sends exactly one POST /winner, naming the
\* player who completed a line or none for a draw; no other step sends one;
\* and the server handling it makes the tallies grow by one in all.
C18_ResultReportedOnce ==
    /\ [][GameEnds =>
            \E w \in Identity :
                /\ network' = network (+) SetToBag({WinnerPost(w)})
                /\ \A p \in {X, O} : CompletesLine(p) => w = p
                /\ Owners(gameState', dimensions) = {} => w = None]_vars
    /\ [][~GameEnds =>
            \A w \in Identity :
                CopiesIn(WinnerPost(w), network') <= CopiesIn(WinnerPost(w), network)]_vars
    /\ [][WinnerPosts(network') < WinnerPosts(network) =>
            /\ WinnerPosts(network') = WinnerPosts(network) - 1
            /\ Tallied(database') = Tallied(database) + 1]_vars

\* C18 happens: a game has ended in a draw, its one request has been handled
\* and the tally of none stands at 1
C18_Witness ==
    /\ isGameOver
    /\ gameEnded = <<None>>
    /\ WinnerPosts(network) = 0
    /\ database.recordedWins = [x |-> 0, o |-> 0, none |-> 1]

\* C19: handling POST /winner with winner w adds exactly 1 to recordedWins[w]
\* and leaves the other two tallies and dimensions as they were.
C19_WinnerIncrementsOneTally ==
    [][\A w \in Identity :
        Served(WinnerPost(w)) =>
            /\ DOMAIN database' = {"dimensions", "recordedWins"}
            /\ DOMAIN database'.recordedWins = Identity
            /\ database'.recordedWins[w] = database.recordedWins[w] + 1
            /\ \A other \in Identity \ {w} :
                database'.recordedWins[other] = database.recordedWins[other]
            /\ database'.dimensions = database.dimensions]_vars

\* C19 happens: with dimensions 4 stored, a win of O has been recorded after
\* a win of X
C19_Witness ==
    /\ database.dimensions = 4
    /\ database.recordedWins = [x |-> 1, o |-> 1, none |-> 0]

\* C20: handling POST /state with the body {dimensions: d} yields a record
\* with the fields it had, dimensions replaced by d, and every field the
\* body does not have, recordedWins among them, as it was.
C20_StateMergesTopLevel ==
    [][\A d \in StoredDimensions :
        Served(StatePost(d)) =>
            /\ DOMAIN database' = DOMAIN database
            /\ database'.dimensions = d
            /\ \A field \in DOMAIN database \ DOMAIN StatePost(d).body :
                database'[field] = database[field]
            /\ database'.recordedWins = database.recordedWins]_vars

\* C20 happens: a win of X was recorded, and then the dimensions 4 were stored
\* over the 3 the server started with
C20_Witness ==
    /\ database.dimensions = 4
    /\ database.recordedWins = [x |-> 1, o |-> 0, none |-> 0]
    /\ dimensions = 4
    /\ CopiesIn(StatePost(4), network) = 0
    /\ elapsedMoves = 0

\* ------------------------------------------------------------------------
\* The persisted record

\* the default record: dimension 3 and every tally 0
DefaultRecord == [dimensions |-> 3, recordedWins |-> [x |-> 0, o |-> 0, none |-> 0]]

\* C21: a GET / leaves the default record (dimension 3, every tally 0) on
\* disk whatever the file held before, and a second GET / right after the
\* first leaves what the first left.
C21_RootRestoresDefault ==
    [][Served(RootGet) =>
            /\ database' = DefaultRecord
            /\ getRoot(database') = database']_vars

\* two resets are on their way to a server whose record is not the default
C21_Witness ==
    /\ listening
    /\ CopiesIn(RootGet, network) = 2
    /\ existsSync(database)
    /\ database.dimensions # 3
    /\ Tallied(database) > 0

\* a GET /dimensions leaves the network in this step
DimensionsRead ==
    /\ BagIn(DimensionsGet, network)
    /\ CopiesIn(DimensionsGet, network') < CopiesIn(DimensionsGet, network)

WellFormed(db) ==
    /\ {"dimensions", "recordedWins"} \subseteq DOMAIN db
    /\ db.dimensions \in Int
    /\ DOMAIN db.recordedWins = {X, O, None}
    /\ \A w \in {X, O, None} : db.recordedWins[w] \in Nat

StatePosts(net) == {m \in BagToSet(net) : "request" \in DOMAIN m /\ m.request = "POST /state"}

\* C24: on a page that has received its stored dimension, once every POST
\* /state of the setter has been handled the dimension on disk is the last
\* one selected, which is the one the page shows, in whatever order the
\* requests arrived.
C24_LastSelectionPersisted ==
    (~loadPending /\ StatePosts(network) = {}) => database.dimensions = dimensions

\* ------------------------------------------------------------------------
\* The basic Board

\* the number of Squares showing p
Placed(sq, p) == Cardinality({loc \in DOMAIN sq : sq[loc] = p})

\* C25: in the basic Board, where a left click asks for X and a right click
\* for O, X moves first and the turns alternate: every mark placed is X when
\* both players have as many marks and O when X has one more, so that the
\* number of X minus the number of O is always 0 or 1.
C25_BasicBoardAlternates ==
    [][/\ \A loc \in DOMAIN squares :
            (loc \in DOMAIN squares' /\ squares[loc] = None /\ squares'[loc] # None) =>
                squares'[loc] = (IF Placed(squares, X) = Placed(squares, O) THEN X ELSE O)
       /\ Placed(squares', X) - Placed(squares', O) \in {0, 1}]_vars

\* C29: in the basic Board the notification is scheduled at most once per
\* game: once a timeout is pending, an activation made before the alert
\* and reload does not call notifyPlayerEndGame again.
C29_BasicBoardNotifiesOnce ==
    [][timers # <<>> => (timers' = timers \/ timers' = <<>>)]_vars

\* ------------------------------------------------------------------------
\* The end of a game on the page

\* the page reloads in this step: a started game gives way to a fresh one
Reloads == elapsedMoves > 0 /\ elapsedMoves' = 0

\* C26: the alert and the reload are deferred and ordered: the move that
\* ends the game records the outcome, calls onGameEnd once and leaves the
\* alert pending without reloading; a reload happens only for a game that is
\* over, whose outcome has been handed to onGameEnd and whose alert is
\* pending; and every game that is over is eventually followed by the
\* reload to a fresh game.
C26_AlertDeferredThenReset ==
    /\ [][/\ GameEnds =>
                /\ ~Reloads
                /\ timers = <<>> /\ Len(timers') = 1
                /\ gameEnded' = Append(gameEnded, winner')
          /\ Reloads => (isGameOver /\ gameEnded # <<>> /\ timers # <<>>)]_vars
    /\ (isGameOver ~> (~isGameOver /\ elapsedMoves = 0 /\ timers = <<>>))

\* the game is over, its outcome has been handed to onGameEnd and the alert
\* is pending
C26_Witness ==
    /\ isGameOver
    /\ Len(gameEnded) = 1
    /\ Len(timers) = 1
    /\ elapsedMoves > 0

\* ------------------------------------------------------------------------
\* The dimension during a game

\* C27: the matrix cell gameState[r][c] holds the identity shown by the
\* Square at (r, c), for every cell, whatever clicks, right-clicks, drops
\* and dimension changes have happened.
C27_MatrixMatchesSquares ==
    \A loc \in DOMAIN squares :
        /\ loc.row \in DOMAIN gameState
        /\ loc.column \in DOMAIN gameState[loc.row]
        /\ gameState[loc.row][loc.column] = squares[loc]

\* C28: once a move has been made the dimension stays as it is until the
\* page reloads: neither the slider nor a late response to GET /dimensions
\* changes it.
C28_DimensionFixedAfterFirstMove ==
    [][(elapsedMoves > 0 /\ ~Reloads) => dimensions' = dimensions]_vars

\* ------------------------------------------------------------------------
\* Lines completed by one move

\* the game on the board is a standard one: every mark of the matrix is the
\* one its Square shows, and each mark was placed by one counted move
StandardPlay ==
    /\ \A loc \in DOMAIN squares : At(gameState, loc) = squares[loc]
    /\ Placed(squares, X) + Placed(squares, O) = elapsedMoves
    /\ Placed(squares, X) - Placed(squares, O) \in {0, 1}

\* the lines that are complete after this step and were not before it
NewLines ==
    {line \in Lines(dimensions) :
        /\ \E p \in {X, O} : Owns(gameState', line, p)
        /\ ~\E p \in {X, O} : Owns(gameState, line, p)}

\* C30 as stated: under standard play an accepted move never completes more
\* than one line.
C30_OneLinePerMove ==
    [][(StandardPlay /\ Accepted /\ dimensions' = dimensions) =>
            Cardinality(NewLines) <= 1]_vars

\* C30: every line an accepted move completes, under standard play as under
\* any other, passes through the cell played and is held by the player who
\* moved; there can be more than one such line.
C30_NewLinesBelongToMover ==
    [][(Accepted /\ dimensions' = dimensions) =>
            \A line \in NewLines :
                /\ Owns(gameState', line, currentPlayer)
                /\ \E loc \in line : Marks(loc, currentPlayer)]_vars

\* one move of a standard game has completed two lines at once
C30_Witness ==
    /\ isGameOver
    /\ \A loc \in DOMAIN squares : At(gameState, loc) = squares[loc]
    /\ Placed(squares, X) + Placed(squares, O) = elapsedMoves
    /\ Cardinality(CompletePlaces(gameState, dimensions)) >= 2

\* ------------------------------------------------------------------------
\* The winner of a game on the solution Board

\* C31: on the solution Board at most one identity ever holds a complete
\* line, so the scan order of the analysis does not matter, and the winner
\* an accepted move reports is the player who made that move.
C31_OneOwnerIsLastMover ==
    [][/\ Cardinality(Owners(gameState', dimensions')) <= 1
       /\ (Accepted /\ winner' \in {X, O}) =>
            /\ winner' = currentPlayer
            /\ Owners(gameState', dimensions') = {currentPlayer}]_vars

\* O has won with its sixth-move line while X holds marks of its own
C31_Witness ==
    /\ isGameOver
    /\ winner = O
    /\ Owners(gameState, dimensions) = {O}
    /\ currentPlayer = X
    /\ Placed(squares, X) = 3

\* ------------------------------------------------------------------------
\* The move counter and the grid

\* the number of cells of the grid g that hold a mark
Occupied(g) ==
    Cardinality({loc \in Location(Size(g)) : At(g, loc) # None})

\* C32: on the solution Board the move counter equals the number of cells
\* of the grid that hold a mark, whatever activations, drops and dimension
\* changes have happened.
C32_CounterIsOccupiedCells == elapsedMoves = Occupied(gameState)

\* ------------------------------------------------------------------------
\* The end of every game

\* C33: every game on a playable board ends: players who keep activating
\* empty Squares reach a win or a draw, so no state has every Square
\* occupied while the game is still in progress, also when the dimension
\* has changed before or during the game.
C33_FullBoardIsOver ==
    (dimensions >= minimumDimensions /\ ~isGameOver) =>
        \E loc \in DOMAIN squares : squares[loc] = None

\* ------------------------------------------------------------------------
\* The slider and the response to GET /dimensions

\* the response to GET /dimensions is assigned in this step
ResponseAssigned == loadPending /\ ~loadPending'

\* C34: a dimension selected with the slider before the response to GET
\* /dimensions arrives is not lost: when the response is assigned, the page
\* keeps the selected dimension and sends no POST /state with another one.
C34_EarlySelectionKept ==
    [][(ResponseAssigned /\ dimensions # initialDimensions) =>
            /\ dimensions' = dimensions
            /\ \A d \in StoredDimensions :
                    CopiesIn(StatePost(d), network') > CopiesIn(StatePost(d), network)
                        => d = dimensions]_vars

\* ------------------------------------------------------------------------
\* The drag target

\* s differs from the page by one accepted move on the Square at loc
OneMoveOn(s, loc) ==
    /\ s.elapsedMoves = elapsedMoves + 1
    /\ s.squares = [squares EXCEPT ![loc] = currentPlayer]
    /\ At(s.gameState, loc) = currentPlayer
    /\ \A other \in Location(dimensions) \ {loc} : At(s.gameState, other) = At(gameState, other)
    /\ s.currentPlayer = Toggle(currentPlayer)

\* C35: releasing the drag target over an empty Square of a game in
\* progress makes exactly one accepted move (one cell written, the counter
\* one higher, one toggle), however many listeners the Square has added;
\* over an occupied Square or after the end of the game it makes no move.
C35_DropIsOneMove ==
    \A loc \in DOMAIN squares :
        IF squares[loc] = None /\ ~isGameOver
        THEN OneMoveOn(onPointerUp(Page, loc), loc)
        ELSE onPointerUp(Page, loc) = Page

\* ------------------------------------------------------------------------
\* The tallies on the server

\* the server handles the request m in this step
Handled(m) ==
    /\ "request" \in DOMAIN m
    /\ BagIn(m, network)
    /\ CopiesIn(m, network') < CopiesIn(m, network)

\* the requests C36 is about
TallyRequests ==
    {DimensionsGet} \cup {WinnerPost(w) : w \in Identity}
        \cup {StateFieldsPost([dimensions |-> d]) : d \in BodyDimensions}

\* C36: no tally increment is lost on the server: in whatever order POST
\* /winner, POST /state with a dimension and GET /dimensions are handled,
\* each handled POST /winner adds one to the tally it names and no other of
\* these requests changes a tally, so that each tally plus the requests
\* naming it that are still on their way stays the same.
C36_NoTallyLost ==
    [][\A m \in TallyRequests :
            (Handled(m) /\ existsSync(database)) =>
                \A w \in Identity :
                    database'.recordedWins[w] + CopiesIn(WinnerPost(w), network')
                        = database.recordedWins[w] + CopiesIn(WinnerPost(w), network)]_vars

\* a win of x and a win of o have been counted, with a POST /state handled
\* and another on its way
C36_Witness ==
    /\ listening
    /\ existsSync(database)
    /\ database.recordedWins = [x |-> 1, o |-> 1, none |-> 0]
    /\ database.dimensions = 0
    /\ BagIn(StateFieldsPost([dimensions |-> 4]), network)

\* ------------------------------------------------------------------------
\* The slider range

\* C37: whatever minimumDimensions and maximumDimensions AdvancedBoard is
\* given, the range it computes has min <= max, and after every render the
\* dimension lies within the range: a loaded or selected value above max
\* has been replaced by max and one below min by min.
C37_DimensionWithinRange ==
    "sliderMin" \in DOMAIN slider =>
        /\ slider.sliderMin <= slider.sliderMax
        /\ slider.sliderMin <= dimensions
        /\ dimensions <= slider.sliderMax

\* the props ask for a maximum below the minimum: the range is the minimum
\* alone, and the initial dimension 3 has been replaced by it
C37_Witness ==
    /\ "sliderMin" \in DOMAIN slider
    /\ "minimumDimensions" \in DOMAIN slider /\ slider.minimumDimensions = 4
    /\ "maximumDimensions" \in DOMAIN slider /\ slider.maximumDimensions = 2
    /\ slider.sliderMin = 4 /\ slider.sliderMax = 4
    /\ dimensions = 4
    /\ ~loadPending

\* ------------------------------------------------------------------------
\* The requests of the page

\* C38: the page writes to the store only when the dimension changes or a
\* game ends: a step that sends a POST /state changes the dimension, also
\* when the page loads, and a step that sends a POST /winner ends a game.
C38_WritesOnlyOnChangeOrEnd ==
    [][/\ (\E d \in StoredDimensions :
                CopiesIn(StatePost(d), network') > CopiesIn(StatePost(d), network))
            => dimensions' # dimensions
       /\ WinnerPosts(network') > WinnerPosts(network) => GameEnds]_vars

\* ------------------------------------------------------------------------
\* GET /tic-tac-toe/stateful/:action

\* a response to GET /tic-tac-toe/stateful/:action is sent in this step
StatefulAnswered ==
    \E m \in BagToSet(network') :
        /\ "response" \in DOMAIN m
        /\ m.response = "GET /tic-tac-toe/stateful/:action"
        /\ CopiesIn(m, network') > CopiesIn(m, network)

\* C39: whatever the value of :action, the handler of GET
\* /tic-tac-toe/stateful/:action sends a response, a body or a redirect,
\* before it ends, and it changes the record on disk only for the action
\* clear.
C39_StatefulAlwaysAnswers ==
    [][\A act \in StatefulActions :
            Handled(StatefulGet(act)) =>
                /\ StatefulAnswered
                /\ act # "clear" => database' = database]_vars

====
